---- MODULE Spec2Model ----
(***************************************************************************)
(* Model of 08-01-Cost-when-training-ML-algorithm.ipynb: the notebook's    *)
(* code cells run top to bottom.  A cell that raises stops the flow.       *)
(*                                                                         *)
(* Library calls are modelled by what they do to the values the notebook   *)
(* holds:                                                                  *)
(*   - DataFrame.sample(n) draws n distinct rows and raises when the table *)
(*     has fewer than n rows;                                              *)
(*   - train_test_split(test_size=0.3, random_state=0) takes the first     *)
(*     ceil(0.3*n) entries of the seeded permutation as the test rows and  *)
(*     the rest as the train rows, and raises when no train row is left;   *)
(*   - LogisticRegression.fit multiplies the per-row sample weights by the *)
(*     per-class weights and raises when y holds fewer than two classes;   *)
(*   - roc_auc_score raises when y_true holds a single class.              *)
(* The fitted coefficients and the area under the curve are not computed:  *)
(* a fitted classifier is the record of what it was fitted on, and a       *)
(* metric is the record of the fit, the rows and the labels it scores.     *)
(* Equal records give equal printed numbers.                               *)
(***************************************************************************)
EXTENDS Integers, Sequences, FiniteSets, TLC

-----------------------------------------------------------------------------
(* Bounds of the model *)

\* the CSV file holds 1..MaxCsv rows
MaxCsv == 5
\* sample(n) is run for every n in 1..MaxSample, in place of n = 10000
MaxSample == 5
\* longest estimator list of SpecEst
MaxEst == 3

(* Program constants *)

\* .sample(10000)
SampleN == 10000
\* test_size=0.3, as the fraction TestSizeNum / TestSizeDen
TestSizeNum == 3
TestSizeDen == 10
\* [5 rows x 75 columns]: 74 feature columns and the target column
NCols == 75
\* np.where(y_train==1, 99, 1)
MinorityCost == 99
MajorityCost == 1
\* class_weight={-1:1, 1:10}
DictNegCost == 1
DictPosCost == 10

-----------------------------------------------------------------------------
(* Helpers *)

RECURSIVE GCD(_, _)
GCD(a, b) == IF b = 0 THEN a ELSE GCD(b, a % b)

\* a positive rational as a reduced fraction <<numerator, denominator>>
Frac(n, d) == LET g == GCD(n, d) IN <<n \div g, d \div g>>

\* the fraction f times the integer k
FracMul(f, k) == Frac(f[1] * k, f[2])

Range(s) == {s[i] : i \in DOMAIN s}

\* the sequences of n distinct elements of S
Arrangements(S, n) ==
    {s \in [1..n -> S] : \A i, j \in 1..n : i # j => s[i] # s[j]}

\* the ways to draw n of the positions 1..k.  sample() returns the drawn
\* rows in a random order; the split shuffles them again, with a
\* permutation that ranges over all permutations, so one order is kept for
\* each set of drawn rows: the order of the file.
RECURSIVE Ascending(_)
Ascending(S) ==
    IF S = {} THEN <<>>
    ELSE LET m == CHOOSE x \in S : \A z \in S : z <= x
         IN Append(Ascending(S \ {m}), m)

Draws(k, n) == {Ascending(S) : S \in {T \in SUBSET (1..k) : Cardinality(T) = n}}

\* number of positions of s holding v
Count(s, v) == Cardinality({i \in DOMAIN s : s[i] = v})

-----------------------------------------------------------------------------
VARIABLES
    estimators,   \* all_estimators(type_filter='classifier')
    est_i,        \* position of the for loop in estimators
    est_out,      \* names printed by the loop
    est_caught,   \* positions whose exception the except clause swallowed
    file_ok,      \* ../kdd2004.csv can be read
    csv,          \* target column of the file, by row index
    n_sample,     \* argument of .sample (10000 in the notebook)
    perm0,        \* RandomState(0).permutation(len(data))
    data,         \* the sampled table
    X_train, X_test, y_train, y_test,
    run_Logit,    \* which definition the name run_Logit is bound to
    cell,         \* index in Notebook of the next cell to run
    stmt,         \* index in Body of the next statement of run_Logit, 0 outside
    frame,        \* arguments of the current run_Logit call
    logit,        \* local variable logit
    pred,         \* local variable pred
    out,          \* out[c]: lines printed by cell c
    log,          \* library calls made so far, in order
    error,        \* the exception that stopped the flow
    prev          \* what an earlier execution of the notebook left

vars == <<estimators, est_i, est_out, est_caught, file_ok, csv, n_sample,
          perm0, data, X_train, X_test, y_train, y_test, run_Logit, cell,
          stmt, frame, logit, pred, out, log, error, prev>>

-----------------------------------------------------------------------------
(* Values *)

NoError == [cell |-> 0, stmt |-> 0, exc |-> ""]
Raised(exc) == [cell |-> cell, stmt |-> stmt, exc |-> exc]

\* class_weight values
CwNone == [tag |-> "None", neg |-> 0, pos |-> 0]
CwBalanced == [tag |-> "balanced", neg |-> 0, pos |-> 0]
CwDict == [tag |-> "dict", neg |-> DictNegCost, pos |-> DictPosCost]

\* sample_weight values
SwNone == [tag |-> "None", vec |-> <<>>]
SwVec(v) == [tag |-> "array", vec |-> v]

NoFit == [X |-> <<>>, y |-> <<>>, w |-> <<>>]
NoLogit == [made |-> FALSE, class_weight |-> CwNone, fitted |-> FALSE, fit |-> NoFit]
NoPred == [made |-> FALSE, fit |-> NoFit, X |-> <<>>]
NoAuc == [fit |-> NoFit, X |-> <<>>, y |-> <<>>]
NoFrame == [class_weight |-> CwNone, sample_weight |-> SwNone]

\* values of a Series, without its index
Values(y) == [i \in DOMAIN y |-> y[i].val]
\* index of a Series
Index(y) == [i \in DOMAIN y |-> y[i].idx]

-----------------------------------------------------------------------------
(* The notebook: its code cells in order *)

\* kw: the keyword parameter a def gives run_Logit, or a call passes;
\* arg: the value a call passes for it
Notebook ==
    << [kind |-> "estimators", kw |-> "", arg |-> ""],
       [kind |-> "imports", kw |-> "", arg |-> ""],
       [kind |-> "load", kw |-> "", arg |-> ""],
       [kind |-> "value_counts", kw |-> "", arg |-> ""],
       [kind |-> "split", kw |-> "", arg |-> ""],
       [kind |-> "def", kw |-> "class_weight", arg |-> ""],
       [kind |-> "call", kw |-> "class_weight", arg |-> "None"],
       [kind |-> "call", kw |-> "class_weight", arg |-> "balanced"],
       [kind |-> "call", kw |-> "class_weight", arg |-> "dict"],
       [kind |-> "def", kw |-> "sample_weight", arg |-> ""],
       [kind |-> "call", kw |-> "sample_weight", arg |-> "None"],
       [kind |-> "call", kw |-> "sample_weight", arg |-> "where"] >>

\* run_Logit with the classifier fitted on the test subset
BodyFitOnTest ==
    << [op |-> "construct", on |-> ""],
       [op |-> "fit", on |-> "test"],
       [op |-> "print", on |-> "train"],
       [op |-> "predict_proba", on |-> "train"],
       [op |-> "print_auc", on |-> "train"],
       [op |-> "print", on |-> "test"],
       [op |-> "predict_proba", on |-> "test"],
       [op |-> "print_auc", on |-> "test"],
       [op |-> "return", on |-> ""] >>

\* run_Logit with the test subset reported before the train subset
BodyTestFirst ==
    << [op |-> "construct", on |-> ""],
       [op |-> "fit", on |-> "train"],
       [op |-> "print", on |-> "test"],
       [op |-> "predict_proba", on |-> "test"],
       [op |-> "print_auc", on |-> "test"],
       [op |-> "print", on |-> "train"],
       [op |-> "predict_proba", on |-> "train"],
       [op |-> "print_auc", on |-> "train"],
       [op |-> "return", on |-> ""] >>

\* the statements of run_Logit, the same in both definitions
Body ==
    << [op |-> "construct", on |-> ""],
       [op |-> "fit", on |-> "train"],
       [op |-> "print", on |-> "train"],
       [op |-> "predict_proba", on |-> "train"],
       [op |-> "print_auc", on |-> "train"],
       [op |-> "print", on |-> "test"],
       [op |-> "predict_proba", on |-> "test"],
       [op |-> "print_auc", on |-> "test"],
       [op |-> "return", on |-> ""] >>

Running == error = NoError /\ cell \in DOMAIN Notebook
At(kind) == Running /\ stmt = 0 /\ Notebook[cell].kind = kind

\* the flow stops at the statement that raised: nothing runs after it
Fail(exc) ==
    /\ error' = Raised(exc)
    /\ UNCHANGED <<cell, stmt>>

InBody(op) == Running /\ stmt \in DOMAIN Body /\ Body[stmt].op = op

Logged(op) == Append(log, [op |-> op, cell |-> cell])

-----------------------------------------------------------------------------
(* Cell 1: which classifiers accept class_weight *)

\* names of classifiers, in the order all_estimators returns them (sorted)
ClassifierNames ==
    << "AdaBoostClassifier", "ClassifierChain", "DecisionTreeClassifier",
       "GaussianNB", "LogisticRegression", "VotingClassifier" >>

\* what class_() and hasattr(class_(), 'class_weight') do for one classifier:
\*   "raises"  class_() raises (a required argument is missing)
\*   "has"     the instance has the attribute
\*   "lacks"   the instance does not have it
\*   "broken"  reading the attribute raises something else than AttributeError
Behaviours == {"raises", "has", "lacks", "broken"}

\* the estimator lists of length n
EstimatorLists(n) ==
    {[i \in 1..n |-> [name |-> ClassifierNames[i], does |-> b[i]]] :
        b \in [1..n -> Behaviours]}

\* the installed library: one classifier that does not take class_weight,
\* one that cannot be built without arguments, one that takes class_weight
Registry ==
    << [name |-> "AdaBoostClassifier", does |-> "lacks"],
       [name |-> "ClassifierChain", does |-> "raises"],
       [name |-> "DecisionTreeClassifier", does |-> "has"] >>

\* try: if hasattr(class_(), 'class_weight'): print(name)  except: pass
\* the loop body without its try statement
HasattrUnguarded(e) ==
    CASE e.does = "raises" -> [exc |-> "TypeError", caught |-> FALSE, printed |-> FALSE]
      [] e.does = "broken" -> [exc |-> "RuntimeError", caught |-> FALSE, printed |-> FALSE]
      [] e.does = "has" -> [exc |-> "", caught |-> FALSE, printed |-> TRUE]
      [] OTHER -> [exc |-> "", caught |-> FALSE, printed |-> FALSE]

\* exc: the exception that leaves the try statement (none: except catches all)
TryHasattr(e) ==
    CASE e.does = "raises" -> [exc |-> "", caught |-> TRUE, printed |-> FALSE]
      [] e.does = "broken" -> [exc |-> "", caught |-> TRUE, printed |-> FALSE]
      [] e.does = "has" -> [exc |-> "", caught |-> FALSE, printed |-> TRUE]
      [] OTHER -> [exc |-> "", caught |-> FALSE, printed |-> FALSE]

\* one iteration of: for name, class_ in estimators
EstimatorsLoop ==
    /\ At("estimators")
    /\ est_i <= Len(estimators)
    /\ LET e == estimators[est_i]
           r == TryHasattr(e)
       IN /\ est_out' = IF r.printed THEN Append(est_out, e.name) ELSE est_out
          /\ est_caught' = IF r.caught THEN est_caught \cup {est_i} ELSE est_caught
          /\ IF r.exc # ""
             THEN Fail(r.exc) /\ UNCHANGED est_i
             ELSE est_i' = est_i + 1 /\ UNCHANGED <<cell, stmt, error>>
    /\ UNCHANGED <<prev, estimators, file_ok, csv, n_sample, perm0, data, X_train,
                   X_test, y_train, y_test, run_Logit, frame,
                   logit, pred, out, log>>

\* the list is exhausted: the cell ends
EstimatorsEnd ==
    /\ At("estimators")
    /\ est_i > Len(estimators)
    /\ cell' = cell + 1
    /\ UNCHANGED <<prev, estimators, est_i, est_out, est_caught, file_ok, csv,
                   n_sample, perm0, data, X_train, X_test, y_train, y_test,
                   run_Logit, stmt, frame, logit, pred, out, log, error>>

-----------------------------------------------------------------------------
(* Cells 2-5: imports, load, value_counts, split *)

EmptyFrame == [rows |-> <<>>, ncols |-> 0]

Imports ==
    /\ At("imports")
    /\ cell' = cell + 1
    /\ UNCHANGED <<prev, estimators, est_i, est_out, est_caught, file_ok, csv,
                   n_sample, perm0, data, X_train, X_test, y_train, y_test,
                   run_Logit, stmt, frame, logit, pred, out, log, error>>

\* pd.read_csv('../kdd2004.csv'): one row per file row, NCols columns
ReadCsv ==
    [rows |-> [i \in DOMAIN csv |-> [idx |-> i, target |-> csv[i]]],
     ncols |-> NCols]

\* df.sample(n) keeping the rows at positions s of df, in that order
Sample(df, s) == [rows |-> [i \in DOMAIN s |-> df.rows[s[i]]], ncols |-> df.ncols]

\* data = pd.read_csv('../kdd2004.csv').sample(10000)
Load ==
    /\ At("load")
    /\ \/ /\ ~file_ok
          /\ Fail("FileNotFoundError")
          /\ log' = Logged("read_csv")
          /\ UNCHANGED data
       \/ /\ file_ok
          /\ n_sample > Len(csv)
          /\ Fail("ValueError")
          /\ log' = Logged("read_csv")
          /\ UNCHANGED data
       \/ /\ file_ok
          /\ n_sample <= Len(csv)
          /\ \E s \in Draws(Len(csv), n_sample) :
                data' = Sample(ReadCsv, s)
          /\ log' = Logged("read_csv")
          /\ cell' = cell + 1
          /\ UNCHANGED <<stmt, error>>
    /\ UNCHANGED <<prev, estimators, est_i, est_out, est_caught, file_ok, csv,
                   n_sample, perm0, X_train, X_test, y_train, y_test,
                   run_Logit, frame, logit, pred, out>>

\* data.target.value_counts() / len(data): displays, changes nothing
ValueCounts ==
    /\ At("value_counts")
    /\ cell' = cell + 1
    /\ UNCHANGED <<prev, estimators, est_i, est_out, est_caught, file_ok, csv,
                   n_sample, perm0, data, X_train, X_test, y_train, y_test,
                   run_Logit, stmt, frame, logit, pred, out, log, error>>

\* data.drop(labels=['target'], axis=1)
DropTarget(df) == [rows |-> [i \in DOMAIN df.rows |-> df.rows[i].idx],
                   ncols |-> df.ncols - 1]

\* data['target']
TargetOf(df) == [i \in DOMAIN df.rows |-> [idx |-> df.rows[i].idx,
                                           val |-> df.rows[i].target]]

\* the quotient rounded down
Floor(a, b) == a \div b

\* ceil(a / b) for a >= 0, b > 0
Ceil(a, b) == (a + b - 1) \div b

\* n_test = ceil(test_size * n_samples)
NTest(n) == Ceil(TestSizeNum * n, TestSizeDen)

\* n_train = n_samples - n_test (train_size is None)
NTrain(n) == n - NTest(n)

\* ind_test = permutation[:n_test]
IndTest(perm) == SubSeq(perm, 1, NTest(Len(perm)))

\* the train slice starting one entry early
IndTrainFromLastTest(perm) == SubSeq(perm, NTest(Len(perm)), Len(perm))

\* ind_train = permutation[n_test:n_test + n_train]
IndTrain(perm) == SubSeq(perm, NTest(Len(perm)) + 1, Len(perm))

\* a[ind]
Take(a, ind) == [k \in DOMAIN ind |-> a[ind[k]]]

\* the permutation read backwards
Reversed(perm) == [k \in DOMAIN perm |-> perm[Len(perm) + 1 - k]]

\* the split without its seed: a later execution shuffles differently
TrainTestSplitUnseeded(X, y, perm) ==
    LET p == IF prev.taken THEN Reversed(perm) ELSE perm
    IN IF NTrain(Len(X.rows)) = 0
       THEN [exc |-> "ValueError", X_train |-> EmptyFrame, X_test |-> EmptyFrame,
             y_train |-> <<>>, y_test |-> <<>>]
       ELSE [exc |-> "",
             X_train |-> [rows |-> Take(X.rows, IndTrain(p)), ncols |-> X.ncols],
             X_test |-> [rows |-> Take(X.rows, IndTest(p)), ncols |-> X.ncols],
             y_train |-> Take(y, IndTrain(p)),
             y_test |-> Take(y, IndTest(p))]

\* train_test_split(X, y, test_size=0.3, random_state=0)
TrainTestSplit(X, y, perm) ==
    IF NTrain(Len(X.rows)) = 0
    THEN [exc |-> "ValueError", X_train |-> EmptyFrame, X_test |-> EmptyFrame,
          y_train |-> <<>>, y_test |-> <<>>]
    ELSE [exc |-> "",
          X_train |-> [rows |-> Take(X.rows, IndTrain(perm)), ncols |-> X.ncols],
          X_test |-> [rows |-> Take(X.rows, IndTest(perm)), ncols |-> X.ncols],
          y_train |-> Take(y, IndTrain(perm)),
          y_test |-> Take(y, IndTest(perm))]

Split ==
    /\ At("split")
    /\ LET r == TrainTestSplit(DropTarget(data), TargetOf(data), perm0)
       IN IF r.exc # ""
          THEN /\ Fail(r.exc)
               /\ UNCHANGED <<X_train, X_test, y_train, y_test>>
          ELSE /\ X_train' = r.X_train
               /\ X_test' = r.X_test
               /\ y_train' = r.y_train
               /\ y_test' = r.y_test
               /\ cell' = cell + 1
               /\ UNCHANGED <<stmt, error>>
    /\ log' = Logged("train_test_split")
    /\ UNCHANGED <<prev, estimators, est_i, est_out, est_caught, file_ok, csv,
                   n_sample, perm0, data, run_Logit, frame, logit, pred, out>>

-----------------------------------------------------------------------------
(* Cells 6-12: the two definitions of run_Logit and their calls *)

\* def run_Logit(X_train, X_test, y_train, y_test, <kw>)
Def ==
    /\ At("def")
    /\ run_Logit' = Notebook[cell].kw
    /\ cell' = cell + 1
    /\ UNCHANGED <<prev, estimators, est_i, est_out, est_caught, file_ok, csv,
                   n_sample, perm0, data, X_train, X_test, y_train, y_test,
                   stmt, frame, logit, pred, out, log, error>>

\* the two costs given the wrong way round
WhereSwapped(y) ==
    [i \in DOMAIN y |-> IF y[i].val = 1 THEN MajorityCost ELSE MinorityCost]

\* np.where(y_train==1, 99, 1)
Where(y) == [i \in DOMAIN y |-> IF y[i].val = 1 THEN MinorityCost ELSE MajorityCost]

\* every sample_weight call passing the cost vector
ArgsOfAlwaysWhere(c) ==
    [class_weight |->
        CASE c.kw = "class_weight" /\ c.arg = "balanced" -> CwBalanced
          [] c.kw = "class_weight" /\ c.arg = "dict" -> CwDict
          [] OTHER -> CwNone,
     sample_weight |->
        IF c.kw = "sample_weight" THEN SwVec(Where(y_train)) ELSE SwNone]

\* the arguments a call cell passes; a parameter not passed keeps the
\* library's default, None
ArgsOf(c) ==
    [class_weight |->
        CASE c.kw = "class_weight" /\ c.arg = "balanced" -> CwBalanced
          [] c.kw = "class_weight" /\ c.arg = "dict" -> CwDict
          [] OTHER -> CwNone,
     sample_weight |->
        IF c.kw = "sample_weight" /\ c.arg = "where"
        THEN SwVec(Where(y_train)) ELSE SwNone]

\* run_Logit(X_train, X_test, y_train, y_test, <kw>=<arg>)
Call ==
    /\ At("call")
    /\ IF run_Logit = ""
       THEN Fail("NameError") /\ UNCHANGED frame
       ELSE IF run_Logit # Notebook[cell].kw
       THEN Fail("TypeError") /\ UNCHANGED frame
       ELSE /\ frame' = ArgsOf(Notebook[cell])
            /\ stmt' = 1
            /\ UNCHANGED <<cell, error>>
    /\ UNCHANGED <<prev, estimators, est_i, est_out, est_caught, file_ok, csv,
                   n_sample, perm0, data, X_train, X_test, y_train, y_test,
                   run_Logit, logit, pred, out, log>>

\* LogisticRegression(penalty='l2', solver='newton-cg', random_state=0,
\*                    max_iter=10, n_jobs=4, class_weight=class_weight)
LogisticRegression(class_weight) ==
    [made |-> TRUE, class_weight |-> class_weight, fitted |-> FALSE, fit |-> NoFit]

Construct ==
    /\ InBody("construct")
    /\ logit' = LogisticRegression(frame.class_weight)
    /\ log' = Logged("LogisticRegression")
    /\ stmt' = stmt + 1
    /\ UNCHANGED <<prev, estimators, est_i, est_out, est_caught, file_ok, csv,
                   n_sample, perm0, data, X_train, X_test, y_train, y_test,
                   run_Logit, cell, frame, pred, out, error>>

Classes(yv) == Range(yv)

\* 'balanced' weighing a class by its frequency instead of its inverse
ClassWeightByFrequency(class_weight, yv, label) ==
    CASE class_weight.tag = "balanced" ->
            Frac(Cardinality(Classes(yv)) * Count(yv, label), Len(yv))
      [] class_weight.tag = "dict" ->
            Frac(IF label = 1 THEN class_weight.pos ELSE class_weight.neg, 1)
      [] OTHER -> Frac(1, 1)

\* compute_class_weight(class_weight, classes, y)[label]
ClassWeight(class_weight, yv, label) ==
    CASE class_weight.tag = "balanced" ->
            Frac(Len(yv), Cardinality(Classes(yv)) * Count(yv, label))
      [] class_weight.tag = "dict" ->
            Frac(IF label = 1 THEN class_weight.pos ELSE class_weight.neg, 1)
      [] OTHER -> Frac(1, 1)

\* _check_sample_weight(sample_weight, X): None stands for all ones
CheckSampleWeight(sample_weight, n) ==
    IF sample_weight.tag = "None" THEN [i \in 1..n |-> 1] ELSE sample_weight.vec

\* sample_weight *= class_weight_[le.fit_transform(y)]
EffectiveWeights(class_weight, sample_weight, yv) ==
    [i \in DOMAIN yv |->
        FracMul(ClassWeight(class_weight, yv, yv[i]),
                CheckSampleWeight(sample_weight, Len(yv))[i])]

\* fit with its failure swallowed: the classifier is left as it was
FitModelQuiet(m, X, y, sample_weight) ==
    IF \/ Len(X.rows) # Len(y)
       \/ sample_weight.tag # "None" /\ Len(sample_weight.vec) # Len(y)
       \/ Cardinality(Classes(Values(y))) < 2
    THEN [exc |-> "", logit |-> m]
    ELSE [exc |-> "",
          logit |-> [m EXCEPT !.fitted = TRUE,
                              !.fit = [X |-> X.rows, y |-> Values(y),
                                       w |-> EffectiveWeights(m.class_weight,
                                                              sample_weight,
                                                              Values(y))]]]

\* logit.fit(X, y, sample_weight=sample_weight)
FitModel(m, X, y, sample_weight) ==
    IF \/ Len(X.rows) # Len(y)
       \/ sample_weight.tag # "None" /\ Len(sample_weight.vec) # Len(y)
       \/ Cardinality(Classes(Values(y))) < 2
    THEN [exc |-> "ValueError", logit |-> m]
    ELSE [exc |-> "",
          logit |-> [m EXCEPT !.fitted = TRUE,
                              !.fit = [X |-> X.rows, y |-> Values(y),
                                       w |-> EffectiveWeights(m.class_weight,
                                                              sample_weight,
                                                              Values(y))]]]

\* the subset a statement of run_Logit works on
SubsetX(on) == IF on = "train" THEN X_train ELSE X_test
SubsetY(on) == IF on = "train" THEN y_train ELSE y_test

Fit ==
    /\ InBody("fit")
    /\ LET r == FitModel(logit, SubsetX(Body[stmt].on), SubsetY(Body[stmt].on),
                         frame.sample_weight)
       IN IF r.exc # ""
          THEN Fail(r.exc) /\ UNCHANGED logit
          ELSE /\ logit' = r.logit
               /\ stmt' = stmt + 1
               /\ UNCHANGED <<cell, error>>
    /\ log' = Logged("fit")
    /\ UNCHANGED <<prev, estimators, est_i, est_out, est_caught, file_ok, csv,
                   n_sample, perm0, data, X_train, X_test, y_train, y_test,
                   run_Logit, frame, pred, out>>

Line(text, auc) == [text |-> text, auc |-> auc]
Printed(line) == [out EXCEPT ![cell] = Append(@, line)]

\* print('Train set'), print('Test set')
Header(on) == IF on = "train" THEN "Train set" ELSE "Test set"

PrintHeader ==
    /\ InBody("print")
    /\ out' = Printed(Line(Header(Body[stmt].on), NoAuc))
    /\ stmt' = stmt + 1
    /\ UNCHANGED <<prev, estimators, est_i, est_out, est_caught, file_ok, csv,
                   n_sample, perm0, data, X_train, X_test, y_train, y_test,
                   run_Logit, cell, frame, logit, pred, log, error>>

\* logit.predict_proba(X)
PredictProba(m, X) ==
    IF ~m.fitted
    THEN [exc |-> "NotFittedError", pred |-> NoPred]
    ELSE [exc |-> "", pred |-> [made |-> TRUE, fit |-> m.fit, X |-> X.rows]]

Predict ==
    /\ InBody("predict_proba")
    /\ LET r == PredictProba(logit, SubsetX(Body[stmt].on))
       IN IF r.exc # ""
          THEN Fail(r.exc) /\ UNCHANGED pred
          ELSE /\ pred' = r.pred
               /\ stmt' = stmt + 1
               /\ UNCHANGED <<cell, error>>
    /\ log' = Logged("predict_proba")
    /\ UNCHANGED <<prev, estimators, est_i, est_out, est_caught, file_ok, csv,
                   n_sample, perm0, data, X_train, X_test, y_train, y_test,
                   run_Logit, frame, logit, out>>

\* a score that is defined for a single class too
RocAucScoreAnyClasses(y_true, p) ==
    IF \/ ~p.made
       \/ Len(y_true) # Len(p.X)
    THEN [exc |-> "ValueError", auc |-> NoAuc]
    ELSE [exc |-> "", auc |-> [fit |-> p.fit, X |-> p.X, y |-> Values(y_true)]]

\* roc_auc_score(y_true, pred[:, 1])
RocAucScore(y_true, p) ==
    IF \/ ~p.made
       \/ Len(y_true) # Len(p.X)
       \/ Cardinality(Classes(Values(y_true))) < 2
    THEN [exc |-> "ValueError", auc |-> NoAuc]
    ELSE [exc |-> "", auc |-> [fit |-> p.fit, X |-> p.X, y |-> Values(y_true)]]

\* print('Random Forests roc-auc: {}'.format(roc_auc_score(y, pred[:, 1])))
PrintAuc ==
    /\ InBody("print_auc")
    /\ LET r == RocAucScore(SubsetY(Body[stmt].on), pred)
       IN IF r.exc # ""
          THEN Fail(r.exc) /\ UNCHANGED out
          ELSE /\ out' = Printed(Line("Random Forests roc-auc", r.auc))
               /\ stmt' = stmt + 1
               /\ UNCHANGED <<cell, error>>
    /\ log' = Logged("roc_auc_score")
    /\ UNCHANGED <<prev, estimators, est_i, est_out, est_caught, file_ok, csv,
                   n_sample, perm0, data, X_train, X_test, y_train, y_test,
                   run_Logit, frame, logit, pred>>

\* the call returns: its locals are gone
Return ==
    /\ InBody("return")
    /\ logit' = NoLogit
    /\ pred' = NoPred
    /\ frame' = NoFrame
    /\ stmt' = 0
    /\ cell' = cell + 1
    /\ UNCHANGED <<prev, estimators, est_i, est_out, est_caught, file_ok, csv,
                   n_sample, perm0, data, X_train, X_test, y_train, y_test,
                   run_Logit, out, log, error>>

-----------------------------------------------------------------------------
(* Specifications *)

Labels == {-1, 1}

\* the files: 1..MaxCsv rows of which any number is labelled +1.  The split
\* shuffles the rows, so the order of the rows in the file does not matter:
\* the +1 rows are listed first.
Files ==
    UNION {{[i \in 1..k |-> IF i <= p THEN 1 ELSE -1] : p \in 0..k} :
              k \in 1..MaxCsv}

\* nothing was executed before
NoPrev ==
    [taken |-> FALSE, loaded |-> FALSE, data |-> EmptyFrame,
     X_train |-> EmptyFrame, X_test |-> EmptyFrame,
     y_train |-> <<>>, y_test |-> <<>>,
     out |-> [c \in DOMAIN Notebook |-> <<>>], error |-> NoError]

InitFlow ==
    /\ prev = NoPrev
    /\ est_i = 1
    /\ est_out = <<>>
    /\ est_caught = {}
    /\ data = EmptyFrame
    /\ X_train = EmptyFrame
    /\ X_test = EmptyFrame
    /\ y_train = <<>>
    /\ y_test = <<>>
    /\ run_Logit = ""
    /\ cell = 1
    /\ stmt = 0
    /\ frame = NoFrame
    /\ logit = NoLogit
    /\ pred = NoPred
    /\ out = [c \in DOMAIN Notebook |-> <<>>]
    /\ log = <<>>
    /\ error = NoError

Init ==
    /\ estimators = Registry
    /\ file_ok \in BOOLEAN
    /\ csv \in IF file_ok THEN Files ELSE {<<>>}
    /\ n_sample \in 1..MaxSample
    /\ perm0 \in Arrangements(1..n_sample, n_sample)
    /\ InitFlow

Next ==
    \/ EstimatorsLoop
    \/ EstimatorsEnd
    \/ Imports
    \/ Load
    \/ ValueCounts
    \/ Split
    \/ Def
    \/ Call
    \/ Construct
    \/ Fit
    \/ PrintHeader
    \/ Predict
    \/ PrintAuc
    \/ Return

Spec == Init /\ [][Next]_vars

\* the estimator-listing cell alone, over every estimator list
InitEst ==
    /\ estimators \in UNION {EstimatorLists(n) : n \in 0..MaxEst}
    /\ file_ok = TRUE
    /\ csv = <<1>>
    /\ n_sample = 1
    /\ perm0 = <<1>>
    /\ InitFlow

NextEst == EstimatorsLoop \/ EstimatorsEnd

SpecEst == InitEst /\ [][NextEst]_vars

-----------------------------------------------------------------------------
(* Properties *)

\* the cell of a kind that occurs once
CellOf(kind) == CHOOSE c \in DOMAIN Notebook : Notebook[c].kind = kind

\* the cell calling run_Logit(..., kw=arg)
CallOf(kw, arg) ==
    CHOOSE c \in DOMAIN Notebook :
        Notebook[c].kind = "call" /\ Notebook[c].kw = kw /\ Notebook[c].arg = arg

CallCells == {c \in DOMAIN Notebook : Notebook[c].kind = "call"}

\* cell c ran to its end
Done(c) == cell > c

SplitDone == Done(CellOf("split"))

\* C1: after the split, the train rows and the test rows share no row and
\* together hold every row of the sampled table exactly once; the labels of
\* each subset carry the same row identifiers, in the same order, as its
\* feature rows.
C1_SplitPartitionsRows ==
    SplitDone =>
        LET both == X_train.rows \o X_test.rows
        IN /\ Range(X_train.rows) \cap Range(X_test.rows) = {}
           /\ Len(both) = Len(data.rows)
           /\ \A r \in DOMAIN data.rows : Count(both, data.rows[r].idx) = 1
           /\ Index(y_train) = X_train.rows
           /\ Index(y_test) = X_test.rows
           /\ \A i \in DOMAIN y_train : y_train[i].val = csv[y_train[i].idx]
           /\ \A i \in DOMAIN y_test : y_test[i].val = csv[y_test[i].idx]

C1_Witness ==
    /\ SplitDone
    /\ Len(X_train.rows) >= 2
    /\ Len(X_test.rows) >= 2

\* C2: in the run given np.where(y_train==1, 99, 1), the sample_weight
\* vector has one entry per training row, 99 where the training label at
\* that position is +1 and 1 elsewhere, and fit uses exactly these weights.
C2_WeightVectorAligned ==
    (Running /\ cell = CallOf("sample_weight", "where") /\ stmt > 0) =>
        LET sw == frame.sample_weight
        IN /\ sw.tag = "array"
           /\ Len(sw.vec) = Len(y_train)
           /\ Len(sw.vec) = Len(X_train.rows)
           /\ \A i \in DOMAIN sw.vec :
                 /\ sw.vec[i] = IF y_train[i].val = 1 THEN 99 ELSE 1
                 /\ sw.vec[i] > 0
           /\ logit.fitted =>
                 \A i \in DOMAIN sw.vec : logit.fit.w[i] = <<sw.vec[i], 1>>

C2_Witness ==
    /\ cell = CallOf("sample_weight", "where")
    /\ logit.fitted
    /\ 99 \in Range(frame.sample_weight.vec)
    /\ 1 \in Range(frame.sample_weight.vec)

\* lines of out[c] that print a metric
AucLines(c) == {i \in DOMAIN out[c] : out[c][i].auc # NoAuc}

\* C3: a classifier is only ever fitted on the train rows and the train
\* labels, never on a test row; what is printed was scored by a classifier
\* fitted on the train rows.
C3_FitOnTrainOnly ==
    /\ logit.fitted =>
          /\ logit.fit.X = X_train.rows
          /\ logit.fit.y = Values(y_train)
          /\ Range(logit.fit.X) \cap Range(X_test.rows) = {}
    /\ \A c \in CallCells : \A i \in AucLines(c) :
          /\ out[c][i].auc.fit.X = X_train.rows
          /\ Range(out[c][i].auc.fit.X) \cap Range(X_test.rows) = {}
    /\ \A c \in CallCells :
          Cardinality({k \in DOMAIN log : log[k].cell = c /\ log[k].op = "fit"}) <= 1

C3_Witness ==
    /\ Done(CallOf("sample_weight", "where"))
    /\ \A c \in CallCells : Cardinality(AucLines(c)) = 2

\* the library calls of cell c, in the order they were made
CallsOf(c) ==
    LET RECURSIVE Ops(_)
        Ops(k) == IF k = 0 THEN <<>>
                  ELSE IF log[k].cell = c THEN Append(Ops(k - 1), log[k].op)
                  ELSE Ops(k - 1)
    IN Ops(Len(log))

IsPrefix(s, t) == Len(s) <= Len(t) /\ s = SubSeq(t, 1, Len(s))

\* C4: the cells run in notebook order: the table is loaded, then split,
\* then each run builds its classifier, fits it once and only then asks it
\* for probabilities, train before test; a run prints 'Train set', the
\* train metric, 'Test set', the test metric in this order, and a run that
\* ends has printed exactly these four lines.
C4_LinearOrder ==
    /\ \A k \in 1..(Len(log) - 1) : log[k].cell <= log[k + 1].cell
    /\ IsPrefix(CallsOf(CellOf("load")), <<"read_csv">>)
    /\ IsPrefix(CallsOf(CellOf("split")), <<"train_test_split">>)
    /\ CellOf("load") < CellOf("split")
    /\ \A c \in CallCells :
          /\ CellOf("split") < c
          /\ IsPrefix(CallsOf(c),
                      <<"LogisticRegression", "fit", "predict_proba",
                        "roc_auc_score", "predict_proba", "roc_auc_score">>)
          /\ IsPrefix([i \in DOMAIN out[c] |-> out[c][i].text],
                      <<"Train set", "Random Forests roc-auc",
                        "Test set", "Random Forests roc-auc">>)
          /\ Len(out[c]) >= 2 =>
                /\ out[c][2].auc.X = X_train.rows
                /\ out[c][2].auc.y = Values(y_train)
          /\ Len(out[c]) >= 4 =>
                /\ out[c][4].auc.X = X_test.rows
                /\ out[c][4].auc.y = Values(y_test)
          /\ Done(c) => Len(out[c]) = 4 /\ Len(CallsOf(c)) = 6
          /\ CallsOf(c) # <<>> => SplitDone

C4_Witness ==
    /\ error = NoError
    /\ cell > Len(Notebook)

\* y holds fewer than two label values
OneClass(y) == Cardinality(Range(Values(y))) < 2

\* positions of the estimator list the loop has been through
Visited == 1..(est_i - 1)

\* the library calls a cell of a kind makes when nothing is retried
CallsMadeBy(kind) ==
    CASE kind = "load" -> <<"read_csv">>
      [] kind = "split" -> <<"train_test_split">>
      [] kind = "call" -> <<"LogisticRegression", "fit", "predict_proba",
                            "roc_auc_score", "predict_proba", "roc_auc_score">>
      [] OTHER -> <<>>

\* C5 as stated: the program handles no error, so no exception raised by a
\* library call is ever swallowed.
C5_NoExceptionIsCaught == est_caught = {}

\* C5, amended: only the estimator loop handles errors: it swallows what
\* building or inspecting a classifier raises and goes on.  Everywhere else
\* a failing call stops the flow where it is: nothing is logged or printed
\* after it, and no step is passed whose call had to fail.
C5_OnlyTheLoopCatches ==
    /\ est_caught = {i \in Visited : estimators[i].does \in {"raises", "broken"}}
    /\ error.cell # CellOf("estimators")
    /\ error # NoError =>
          /\ cell = error.cell
          /\ stmt = error.stmt
          /\ log # <<>>
          /\ log[Len(log)].cell = error.cell
          /\ \A c \in DOMAIN Notebook : c > error.cell => out[c] = <<>>
          /\ IsPrefix(CallsOf(error.cell), CallsMadeBy(Notebook[error.cell].kind))
    /\ Done(CellOf("load")) => file_ok /\ n_sample <= Len(csv)
    /\ error.cell = CellOf("load") => ~file_ok \/ n_sample > Len(csv)
    /\ SplitDone => Len(X_train.rows) > 0
    /\ \A c \in CallCells :
          /\ (Done(c) \/ (cell = c /\ stmt > 0 /\ Body[stmt].op # "construct"
                                  /\ Body[stmt].op # "fit"))
                => ~OneClass(y_train)
          /\ Len(out[c]) >= 2 => ~OneClass(y_train)
          /\ Len(out[c]) >= 4 => ~OneClass(y_test)

C5_Witness ==
    /\ est_caught # {}
    /\ error.exc = "ValueError"
    /\ error.cell \in CallCells

\* the weight fit gives a training row labelled v in the run (kw, arg)
ExpectedWeight(kw, arg, v) ==
    LET n == Len(y_train)
        k == Count(Values(y_train), v)
    IN CASE kw = "class_weight" /\ arg = "balanced" -> Frac(n, 2 * k)
         [] kw = "class_weight" /\ arg = "dict" -> IF v = 1 THEN <<10, 1>> ELSE <<1, 1>>
         [] kw = "sample_weight" /\ arg = "where" -> IF v = 1 THEN <<99, 1>> ELSE <<1, 1>>
         [] OTHER -> <<1, 1>>

\* what the run (kw, arg) prints, from its arguments alone
ExpectedOut(kw, arg) ==
    LET fit == [X |-> X_train.rows, y |-> Values(y_train),
                w |-> [i \in DOMAIN y_train |->
                          ExpectedWeight(kw, arg, y_train[i].val)]]
    IN << [text |-> "Train set", auc |-> NoAuc],
          [text |-> "Random Forests roc-auc",
           auc |-> [fit |-> fit, X |-> X_train.rows, y |-> Values(y_train)]],
          [text |-> "Test set", auc |-> NoAuc],
          [text |-> "Random Forests roc-auc",
           auc |-> [fit |-> fit, X |-> X_test.rows, y |-> Values(y_test)]] >>

\* C6: outside a call of run_Logit no classifier exists; what a call
\* prints is decided by its own arguments, whatever ran before it; the two
\* unweighted runs (class_weight=None, sample_weight=None) print the same.
C6_RunsAreIndependent ==
    /\ stmt = 0 => logit = NoLogit /\ pred = NoPred
    /\ \A c \in CallCells :
          Done(c) => out[c] = ExpectedOut(Notebook[c].kw, Notebook[c].arg)
    /\ Done(CallOf("sample_weight", "None")) =>
          out[CallOf("sample_weight", "None")] = out[CallOf("class_weight", "None")]

C6_Witness ==
    /\ Done(CallOf("sample_weight", "None"))
    /\ Len(out[CallOf("sample_weight", "None")]) = 4
    /\ Len(out[CallOf("class_weight", "None")]) = 4

\* C7: the test subset has ceil(0.3 n) of the n sampled rows and the train
\* subset the other n - ceil(0.3 n); both have the 74 feature columns; for
\* n = 10000 this is 3000 and 7000.
C7_SplitSizes ==
    SplitDone =>
        LET n == Len(data.rows)
            t == Len(X_test.rows)
        IN /\ n = n_sample
           /\ 10 * t >= 3 * n
           /\ 10 * (t - 1) < 3 * n
           /\ Len(X_train.rows) = n - t
           /\ Len(y_test) = t
           /\ Len(y_train) = n - t
           /\ X_train.ncols = 74
           /\ X_test.ncols = 74
           /\ NTest(SampleN) = 3000
           /\ NTrain(SampleN) = 7000

C7_Witness ==
    /\ SplitDone
    /\ Len(data.rows) = 4
    /\ Len(X_test.rows) = 2
    /\ Len(X_train.rows) = 2

\* a / b = k * (c / d)
FracIsTimes(f, k, g) == f[1] * g[2] = k * g[1] * f[2]

InBalancedFit ==
    /\ cell = CallOf("class_weight", "balanced")
    /\ logit.fitted

RECURSIVE NamesWithClassWeight(_)
NamesWithClassWeight(s) ==
    IF s = <<>> THEN <<>>
    ELSE LET rest == NamesWithClassWeight(SubSeq(s, 1, Len(s) - 1))
             e == s[Len(s)]
         IN IF e.does = "has" THEN Append(rest, e.name) ELSE rest

\* C9: the loop goes through the list in order; the names printed are
\* those of the classifiers seen so far that could be built without
\* arguments and have class_weight; a classifier that raises is skipped
\* without output; the loop never fails and ends only at the end of the list.
C9_LoopListsClassWeight ==
    /\ est_i \in 1..(Len(estimators) + 1)
    /\ est_out = NamesWithClassWeight(SubSeq(estimators, 1, est_i - 1))
    /\ est_caught = {i \in Visited : estimators[i].does \in {"raises", "broken"}}
    /\ error = NoError
    /\ cell = CellOf("estimators") => ENABLED NextEst
    /\ Done(CellOf("estimators")) => est_i = Len(estimators) + 1

C9_Witness ==
    /\ Done(CellOf("estimators"))
    /\ Len(estimators) = 3
    /\ estimators[1].does = "raises"
    /\ estimators[2].does = "has"
    /\ estimators[3].does = "broken"
    /\ est_out = <<estimators[2].name>>

\* the run that failed, if one did
FailedCall == error # NoError /\ error.cell \in CallCells

\* C10 as stated, its last part: a run that fails over a single-label test
\* subset has printed the train metric before.
C10_TestFailsAfterTrainMetric ==
    (FailedCall /\ OneClass(y_test)) => Len(out[error.cell]) >= 2

\* C10, amended: with a single label in the train subset every run fails in
\* fit, before anything is printed; with two labels in the train subset and
\* a single label in the test subset every run fails when it scores the
\* test subset, after 'Train set', the train metric and 'Test set' were
\* printed and without a test metric.
C10_SingleLabelSubsetFails ==
    /\ (SplitDone /\ OneClass(y_train)) =>
          /\ \A c \in CallCells : ~Done(c) /\ out[c] = <<>>
          /\ error # NoError =>
                /\ FailedCall
                /\ Body[error.stmt].op = "fit"
                /\ error.exc = "ValueError"
    /\ (SplitDone /\ ~OneClass(y_train) /\ OneClass(y_test)) =>
          /\ \A c \in CallCells : ~Done(c) /\ Len(out[c]) <= 3
          /\ error # NoError =>
                /\ FailedCall
                /\ Body[error.stmt].op = "print_auc"
                /\ Body[error.stmt].on = "test"
                /\ error.exc = "ValueError"
                /\ Len(out[error.cell]) = 3
                /\ out[error.cell][2].auc # NoAuc
    /\ FailedCall => OneClass(y_train) \/ OneClass(y_test)

C10_Witness ==
    /\ FailedCall
    /\ ~OneClass(y_train)
    /\ OneClass(y_test)
    /\ Len(out[error.cell]) = 3

-----------------------------------------------------------------------------
(* A second execution of the notebook *)

\* the execution has ended: every cell ran, or one raised
Ended == ~Running

\* what the execution that ends here leaves to compare with
Snapshot ==
    [taken |-> TRUE, loaded |-> Done(CellOf("load")), data |-> data,
     X_train |-> X_train, X_test |-> X_test,
     y_train |-> y_train, y_test |-> y_test,
     out |-> out, error |-> error]

\* the kernel is restarted and every cell is run again, on the same file:
\* sample() draws anew, the seeded permutation is the same
RerunAll ==
    /\ Ended
    /\ ~prev.taken
    /\ prev' = Snapshot
    /\ est_i' = 1
    /\ est_out' = <<>>
    /\ est_caught' = {}
    /\ data' = EmptyFrame
    /\ X_train' = EmptyFrame
    /\ X_test' = EmptyFrame
    /\ y_train' = <<>>
    /\ y_test' = <<>>
    /\ run_Logit' = ""
    /\ cell' = 1
    /\ stmt' = 0
    /\ frame' = NoFrame
    /\ logit' = NoLogit
    /\ pred' = NoPred
    /\ out' = [c \in DOMAIN Notebook |-> <<>>]
    /\ log' = <<>>
    /\ error' = NoError
    /\ UNCHANGED <<estimators, file_ok, csv, n_sample, perm0>>

\* the cells from the split on are run again, on the table already loaded
RerunFromSplit ==
    /\ Ended
    /\ ~prev.taken
    /\ Done(CellOf("load"))
    /\ prev' = Snapshot
    /\ cell' = CellOf("split")
    /\ stmt' = 0
    /\ frame' = NoFrame
    /\ logit' = NoLogit
    /\ pred' = NoPred
    /\ out' = [c \in DOMAIN Notebook |->
                  IF c < CellOf("split") THEN out[c] ELSE <<>>]
    /\ log' = SelectSeq(log, LAMBDA e : e.cell < CellOf("split"))
    /\ error' = NoError
    /\ UNCHANGED <<estimators, est_i, est_out, est_caught, file_ok, csv,
                   n_sample, perm0, data, X_train, X_test, y_train, y_test,
                   run_Logit>>

NextTwice ==
    \/ EstimatorsLoop
    \/ EstimatorsEnd
    \/ Imports
    \/ Load
    \/ ValueCounts
    \/ Split
    \/ Def
    \/ Call
    \/ Construct
    \/ Fit
    \/ PrintHeader
    \/ Predict
    \/ PrintAuc
    \/ Return
    \/ RerunAll
    \/ RerunFromSplit

SpecTwice == Init /\ [][NextTwice]_vars

\* the second execution works on the table the first one worked on
SameTable ==
    /\ prev.taken
    /\ prev.loaded
    /\ Done(CellOf("load"))
    /\ data = prev.data

Partition == <<X_train, X_test, y_train, y_test>>
PrevPartition == <<prev.X_train, prev.X_test, prev.y_train, prev.y_test>>

\* C11: a second execution over the same sampled table splits it into the
\* same train and test subsets and prints the same lines, and ends the same
\* way; a second execution of the whole notebook that sampled other rows
\* of the same file has another partition.
C11_SplitIsSeededSampleIsNot ==
    /\ (SameTable /\ SplitDone) => Partition = PrevPartition
    /\ SameTable =>
          \A c \in CallCells : IsPrefix(out[c], prev.out[c])
    /\ (SameTable /\ Ended) => out = prev.out /\ error = prev.error
    /\ (prev.taken /\ prev.loaded /\ SplitDone /\ data # prev.data) =>
          /\ Range(data.rows) # Range(prev.data.rows)
          /\ Partition # PrevPartition

\* both executions ran to the end, over different samples of the same file
C11_Witness ==
    /\ prev.taken
    /\ prev.error = NoError
    /\ error = NoError
    /\ cell > Len(Notebook)
    /\ data # prev.data
    /\ Partition # PrevPartition
    /\ out # prev.out

====
